---- MODULE Spec2Model ----
(***************************************************************************)
(* Model of ustriage/task.py: the Task wrapper around a Launchpad bug      *)
(* task, its memoized properties, the sibling-task classification, the     *)
(* unapproved-queue scan and the fixed-width rendering.                    *)
(*                                                                         *)
(* Strings are sequences of one-character strings, so that slicing,        *)
(* splitting, padding and the regular-expression filter of the code are    *)
(* computed and not assumed.  Two characters that cannot be written in a   *)
(* TLA+ string are single tokens: "ESC" (\033) and "ELLIPSIS" (U+2026).    *)
(***************************************************************************)
EXTENDS Integers, Sequences, FiniteSets, TLC

(***************************************************************************)
(* String literals of the source and of the remote data.                   *)
(***************************************************************************)
COLOR_CYAN == <<"ESC", "[", "0", ";", "3", "6", "m">>
COLOR_GREEN == <<"ESC", "[", "0", ";", "3", "2", "m">>
COLOR_YELLOW == <<"ESC", "[", "0", ";", "3", "3", "m">>
COLOR_RESET == <<"ESC", "[", "0", "m">>

LONG_URL_ROOT == <<"h", "t", "t", "p", "s", ":", "/", "/", "p", "a", "d", ".", "l", "v", "/">>
SHORTLINK_ROOT == <<"L", "P", ":", " ", "#">>
BUG_NUMBER_LENGTH == 7

\* Python's None, True and False: values different from every string.
None == <<"None">>
PyTrue == <<"True">>
PyFalse == <<"False">>

LowerCase == <<"a", "b", "c", "d", "e", "f", "g", "h", "i", "j", "k", "l", "m",
               "n", "o", "p", "q", "r", "s", "t", "u", "v", "w", "x", "y", "z">>
UpperCase == <<"A", "B", "C", "D", "E", "F", "G", "H", "I", "J", "K", "L", "M",
               "N", "O", "P", "Q", "R", "S", "T", "U", "V", "W", "X", "Y", "Z">>

\* str.upper() on one character.
Upper(c) ==
    IF \E i \in 1..26 : LowerCase[i] = c
    THEN UpperCase[CHOOSE i \in 1..26 : LowerCase[i] = c]
    ELSE c

\* The character class [A-Z].
IsCapital(c) == \E i \in 1..26 : UpperCase[i] = c

Spaces(n) == [i \in 1..n |-> " "]

\* '%-Ns' % s and '%Ns' % s.
PadRight(s, n) == IF Len(s) >= n THEN s ELSE s \o Spaces(n - Len(s))
PadLeft(s, n) == IF Len(s) >= n THEN s ELSE Spaces(n - Len(s)) \o s

\* s[0:n] for n >= 0, and s[:-1].
Prefix(s, n) == SubSeq(s, 1, IF n < Len(s) THEN n ELSE Len(s))
DropLast(s) == SubSeq(s, 1, Len(s) - 1)
\* s[n:] for n >= 0.
Suffix(s, n) == SubSeq(s, n + 1, Len(s))

\* s.split(sep) for a one-character separator: the pieces between the
\* separators, empty pieces included.
Split(s, sep) ==
    LET at == {i \in 1..Len(s) : s[i] = sep}
        n == Cardinality(at)
        cut(k) == IF k = 0 THEN 0
                  ELSE IF k > n THEN Len(s) + 1
                  ELSE CHOOSE p \in at : Cardinality({q \in at : q < p}) = k - 1
    IN  [k \in 1..(n + 1) |-> SubSeq(s, cut(k - 1) + 1, cut(k) - 1)]

\* s.split(): on runs of whitespace, no empty token.
SplitWhitespace(s) == SelectSeq(Split(s, " "), LAMBDA tok : tok # <<>>)

RECURSIVE JoinFrom(_, _, _)
JoinFrom(parts, sep, i) ==
    IF i > Len(parts) THEN <<>>
    ELSE IF i = Len(parts) THEN parts[i]
    ELSE parts[i] \o <<sep>> \o JoinFrom(parts, sep, i + 1)

\* sep.join(parts)
Join(parts, sep) == JoinFrom(parts, sep, 1)

\* s.replace(c, '')
Remove(s, c) == SelectSeq(s, LAMBDA x : x # c)

Contains(list, x) == \E i \in 1..Len(list) : list[i] = x

\* truncate_string without the [:-1]: the ellipsis is appended to the slice.
truncate_string_keeps_last(text, length) ==
    IF Len(text) > length THEN Prefix(text, length) \o <<"ELLIPSIS">>
    ELSE Prefix(text, length)

truncate_string(text, length) ==
    LET truncated == Prefix(text, length)
    IN  IF Len(text) > length THEN DropLast(truncated) \o <<"ELLIPSIS">>
        ELSE truncated

mark(text, color) == color \o text \o COLOR_RESET

(***************************************************************************)
(* The remote side: what Launchpad returns.  A task reference prints as    *)
(* its API URL; the title of a task has the form                           *)
(*   Bug #<n> in <package> (<Distro>[ <Series>]): "<summary>"              *)
(***************************************************************************)
API_ROOT == <<"h", "t", "t", "p", "s", ":", "/", "/", "a", "p", "i", ".", "l", "a", "u", "n", "c", "h", "p", "a", "d", ".", "n", "e", "t", "/", "d", "e", "v", "e", "l", "/">>
S_ubuntu == <<"u", "b", "u", "n", "t", "u">>
S_debian == <<"d", "e", "b", "i", "a", "n">>
S_cloudinit == <<"c", "l", "o", "u", "d", "-", "i", "n", "i", "t">>
S_source == <<"+", "s", "o", "u", "r", "c", "e">>
S_devel == <<"-", "d", "e", "v", "e", "l">>
S_bug == <<"+", "b", "u", "g">>
S_jammy == <<"j", "a", "m", "m", "y">>
S_pkga == <<"p", "k", "g", "a">>
S_pkgb == <<"p", "k", "g", "b">>
S_FixReleased == <<"F", "i", "x", " ", "R", "e", "l", "e", "a", "s", "e", "d">>
S_New == <<"N", "e", "w">>
S_Incomplete == <<"I", "n", "c", "o", "m", "p", "l", "e", "t", "e">>
S_High == <<"H", "i", "g", "h">>
S_assignee_link == <<"h", "t", "t", "p", "s", ":", "/", "/", "a", "p", "i", ".", "l", "a", "u", "n", "c", "h", "p", "a", "d", ".", "n", "e", "t", "/", "d", "e", "v", "e", "l", "/", "~", "a", "h", "a", "s", "e", "n", "a", "c", "k">>
T_Bug == <<"B", "u", "g", " ", "#">>
T_in == <<" ", "i", "n", " ">>
T_Ubuntu == <<" ", "(", "U", "b", "u", "n", "t", "u", ")", ":", " ">>
T_UbuntuJammy == <<" ", "(", "U", "b", "u", "n", "t", "u", " ", "J", "a", "m", "m", "y", ")", ":", " ">>
T_Debian == <<" ", "(", "D", "e", "b", "i", "a", "n", ")", ":", " ">>
T_summary == <<"\"", "n", "o", " ", "g", "o", "\"">>

DISTRIBUTION_RESOURCE_TYPE_LINK == "https://api.launchpad.net/devel/#distribution"
DISTRIBUTION_SOURCE_PACKAGE_RESOURCE_TYPE_LINK == "https://api.launchpad.net/devel/#distribution_source_package"
SOURCE_PACKAGE_RESOURCE_TYPE_LINK == "https://api.launchpad.net/devel/#source_package"
PROJECT_RESOURCE_TYPE_LINK == "https://api.launchpad.net/devel/#project"

\* The targets a task of the bug can have: a package of a distribution (in
\* its development series, series = None, or in a named series) or a project.
PackageTarget(distro, series, pkg) == [kind |-> "package", distro |-> distro, series |-> series, pkg |-> pkg]
ProjectTarget(name) == [kind |-> "project", distro |-> name, series |-> None, pkg |-> name]

\* str(lp_task): the API URL of the task.
TaskUrl(target, bugno) ==
    IF target.kind = "project"
    THEN API_ROOT \o target.distro \o <<"/">> \o S_bug \o <<"/">> \o bugno
    ELSE API_ROOT \o target.distro \o <<"/">>
         \o (IF target.series = None THEN <<>> ELSE target.series \o <<"/">>)
         \o S_source \o <<"/">> \o target.pkg \o <<"/">> \o S_bug \o <<"/">> \o bugno

TaskTitle(target, bugno) ==
    T_Bug \o bugno \o T_in \o target.pkg
    \o (IF target.distro = S_debian THEN T_Debian
        ELSE IF target.series = None THEN T_Ubuntu ELSE T_UbuntuJammy)
    \o T_summary

TargetResourceType(target) ==
    IF target.kind = "project" THEN PROJECT_RESOURCE_TYPE_LINK
    ELSE IF target.series = None THEN DISTRIBUTION_SOURCE_PACKAGE_RESOURCE_TYPE_LINK
    ELSE SOURCE_PACKAGE_RESOURCE_TYPE_LINK

\* A task of the parent bug's task list, as far as the code reads it.
\* target is what the task is filed against; the code never reads it.
BugTask(target, bugno, status) ==
    [url |-> TaskUrl(target, bugno), status |-> status, target |-> target]

\* The remote task a Task wraps.
RemoteTask(target, bugno, status, assignee_link, tags, date, bug_tasks) ==
    [url |-> TaskUrl(target, bugno),
     title |-> TaskTitle(target, bugno),
     status |-> status,
     importance |-> S_High,
     assignee_link |-> assignee_link,
     resource_type_link |-> TargetResourceType(target),
     target |-> target,
     bug |-> [tags |-> tags, date_last_updated |-> date, bug_tasks |-> bug_tasks]]

(***************************************************************************)
(* Class-wide configuration, set by the caller at startup.                 *)
(***************************************************************************)
NOWORK_BUG_STATUSES == <<S_FixReleased>>
OPEN_BUG_STATUSES == <<S_New>>

(***************************************************************************)
(* Task: construction and the derived properties.                          *)
(***************************************************************************)
\* Task(lp_task)
TaskInit(lp_task) ==
    LET task_elements == Split(lp_task.url, "/")
        series5 == task_elements[6]
    IN  [subscribed |-> None,
         last_activity_ours |-> None,
         distro |-> task_elements[5],
         source_package_name |-> task_elements[Len(task_elements) - 2],
         series |-> IF series5 = S_source THEN S_devel ELSE series5,
         obj |-> lp_task]

\* Task.create_from_launchpadlib_object(obj), no keyword given.
create_from_launchpadlib_object(obj) ==
    [subscribed |-> None,
     last_activity_ours |-> None,
     distro |-> None,
     source_package_name |-> None,
     series |-> None,
     obj |-> obj]

title(self) == self.obj.title
number(self) == Remove(Split(title(self), " ")[2], "#")
src(self) == Split(title(self), " ")[4]
status(self) == self.obj.status
importance(self) == self.obj.importance
tags(self) == self.obj.bug.tags
date_last_updated(self) == self.obj.bug.date_last_updated
url(self) == LONG_URL_ROOT \o number(self)
shortlink(self) == SHORTLINK_ROOT \o number(self)

\* The user name, or False (the empty string here: both are falsy and both
\* are rendered as '' by compose_pretty).
assignee(self) ==
    IF self.obj.assignee_link # None
    THEN Split(self.obj.assignee_link, "~")[2]
    ELSE <<>>

start_field(link) ==
    CASE link = DISTRIBUTION_RESOURCE_TYPE_LINK -> 4
      [] link = DISTRIBUTION_SOURCE_PACKAGE_RESOURCE_TYPE_LINK -> 5
      [] link = SOURCE_PACKAGE_RESOURCE_TYPE_LINK -> 6
      [] link = PROJECT_RESOURCE_TYPE_LINK -> 7

short_title(self) ==
    Remove(Join(Suffix(Split(title(self), " "), start_field(self.obj.resource_type_link)), " "), "\"")

(***************************************************************************)
(* The unapproved queue of a series (Task.LP) and its scan.  An upload is  *)
(* what the code reads of it: whether it holds a source or a copy, whether *)
(* the copy's archive can be read (self_link raises ValueError if not),    *)
(* how many published sources the archive returns for it, its changes-file *)
(* URL (None if it has none) and the Launchpad-Bugs-Fixed field of that    *)
(* file (None if the field is absent).                                     *)
(***************************************************************************)
Upload(pkg, source, copy, readable, published, changes_url, bugs_fixed) ==
    [package_name |-> pkg, contains_source |-> source, contains_copy |-> copy,
     archive_readable |-> readable, published |-> published,
     changes_file_url |-> changes_url, bugs_fixed |-> bugs_fixed]

\* What a call leaves behind: the value returned ("True", "False", "None"),
\* the exception raised ("none" if it returned) and the remote accesses made.
NotRun == [ret |-> "NotRun", raised |-> "none", log |-> <<>>]

find_changes_bugs(upload) ==
    IF upload.bugs_fixed = None THEN <<>> ELSE SplitWhitespace(upload.bugs_fixed)

get_upload_source_urls(upload) ==
    IF upload.contains_source
    THEN [raised |-> "none", log |-> <<"sourceFileUrls">>]
    ELSE IF upload.contains_copy
    THEN IF ~upload.archive_readable
         THEN [raised |-> "RuntimeError", log |-> <<"copy_source_archive">>]
         ELSE IF upload.published = 0
         \* next() of an empty iterator, outside any generator
         THEN [raised |-> "StopIteration", log |-> <<"copy_source_archive", "getPublishedSources">>]
         ELSE [raised |-> "none", log |-> <<"copy_source_archive", "getPublishedSources", "sourceFileUrls">>]
    ELSE [raised |-> "RuntimeError", log |-> <<>>]

RECURSIVE scan_uploads(_, _, _, _)
\* The loop of _is_in_unapproved over the uploads, from upload i on.
scan_uploads(bug_number, uploads, i, log) ==
    IF i > Len(uploads) THEN [ret |-> "False", raised |-> "none", log |-> log]
    ELSE LET upload == uploads[i]
             urls == get_upload_source_urls(upload)
             log1 == log \o urls.log
         IN  IF urls.raised = "RuntimeError"
             THEN scan_uploads(bug_number, uploads, i + 1, log1)
             ELSE IF urls.raised # "none"
             THEN [ret |-> "NotRun", raised |-> urls.raised, log |-> log1]
             ELSE IF upload.changes_file_url = None
             THEN scan_uploads(bug_number, uploads, i + 1, log1)
             ELSE IF Contains(find_changes_bugs(upload), bug_number)
             THEN [ret |-> "True", raised |-> "none", log |-> Append(log1, "urlopen")]
             ELSE scan_uploads(bug_number, uploads, i + 1, Append(log1, "urlopen"))

\* series.getPackageUploads(pocket="Proposed", status="Unapproved", exact_match=True, name=name)
getPackageUploads(lp, series, name) ==
    SelectSeq(lp.queue[series], LAMBDA upload : upload.package_name = name)

\* _is_in_unapproved without the test of self.series: every series' queue is scanned.
is_in_unapproved_every_series(self, lp) ==
    LET series == CHOOSE x \in DOMAIN lp.queue : TRUE
    IN  scan_uploads(number(self), getPackageUploads(lp, series, src(self)), 1,
                     <<"distributions", "getSeries", "getPackageUploads">>)

_is_in_unapproved(self, lp) ==
    LET ubuntu == <<"distributions">>
    IN  IF self.series = None \/ self.series = <<>> \/ self.series = S_devel
        THEN [ret |-> "None", raised |-> "none", log |-> ubuntu]
        ELSE scan_uploads(number(self), getPackageUploads(lp, self.series, src(self)), 1,
                          ubuntu \o <<"getSeries", "getPackageUploads">>)

(***************************************************************************)
(* Sibling tasks.  A dict is the sequence of its items in insertion order; *)
(* assigning to a key it holds replaces the value in place.                *)
(***************************************************************************)
\* A task of the bug's task list is held by reference: its place in the list.
DictSet(d, key, value) ==
    IF \E i \in 1..Len(d) : d[i].series = key
    THEN [i \in 1..Len(d) |-> IF d[i].series = key THEN [series |-> key, lp_task |-> value] ELSE d[i]]
    ELSE Append(d, [series |-> key, lp_task |-> value])

RECURSIVE sibling_tasks_from(_, _, _, _)
\* The loop of _sibling_tasks from task i on; self_src is str(self.src).
sibling_tasks_from(self_src, bug_tasks, i, found) ==
    IF i > Len(bug_tasks) THEN found
    ELSE LET lp_task == bug_tasks[i]
             task_elements == Split(lp_task.url, "/")
             series5 == task_elements[6]
             series == IF series5 = S_source THEN S_devel ELSE series5
         IN  IF task_elements[5] # S_ubuntu
             THEN sibling_tasks_from(self_src, bug_tasks, i + 1, found)
             ELSE IF task_elements[Len(task_elements) - 2] # self_src
             THEN sibling_tasks_from(self_src, bug_tasks, i + 1, found)
             ELSE sibling_tasks_from(self_src, bug_tasks, i + 1, DictSet(found, series, i))

_sibling_tasks(self) == sibling_tasks_from(src(self), self.obj.bug.bug_tasks, 1, <<>>)

\* The branch of to_dict's loop with the unapproved test put first.
to_dict_class_unapproved_first(self, lp, lp_task) ==
    LET check == _is_in_unapproved(self, lp)
    IN  IF check.raised # "none" THEN [class |-> "raised", check |-> check]
        ELSE IF check.ret = "True" THEN [class |-> "unapproved", check |-> check]
        ELSE IF Contains(NOWORK_BUG_STATUSES, lp_task.status) THEN [class |-> "closed", check |-> check]
        ELSE IF Contains(OPEN_BUG_STATUSES, lp_task.status) THEN [class |-> "open", check |-> check]
        ELSE [class |-> "pending", check |-> check]

\* One round of to_dict's loop: the class of a sibling, and the unapproved
\* check if the round ran it.
to_dict_class(self, lp, lp_task) ==
    IF Contains(NOWORK_BUG_STATUSES, lp_task.status)
    THEN [class |-> "closed", check |-> NotRun]
    ELSE LET check == _is_in_unapproved(self, lp)
         IN  IF check.raised # "none" THEN [class |-> "raised", check |-> check]
             ELSE IF check.ret = "True" THEN [class |-> "unapproved", check |-> check]
             ELSE IF Contains(OPEN_BUG_STATUSES, lp_task.status) THEN [class |-> "open", check |-> check]
             ELSE [class |-> "pending", check |-> check]

\* What a loop over the siblings has done so far.
LoopStart == [items |-> <<>>, raised |-> "none", runs |-> 0, last |-> NotRun]

RECURSIVE to_dict_loop(_, _, _, _, _)
to_dict_loop(self, lp, sibs, i, acc) ==
    IF i > Len(sibs) THEN acc
    ELSE LET round == to_dict_class(self, lp, self.obj.bug.bug_tasks[sibs[i].lp_task])
             ran == round.check # NotRun
             acc1 == [acc EXCEPT !.runs = IF ran THEN @ + 1 ELSE @,
                                 !.last = IF ran THEN round.check ELSE @]
         IN  IF round.check.raised # "none"
             THEN [acc1 EXCEPT !.raised = round.check.raised]
             ELSE to_dict_loop(self, lp, sibs, i + 1,
                      [acc1 EXCEPT !.items = Append(@, [series |-> sibs[i].series, class |-> round.class])])

\* to_dict: the loop's outcome, and the dict when the loop did not raise.
to_dict(self, lp) ==
    LET sibs == _sibling_tasks(self)
        loop == to_dict_loop(self, lp, sibs, 1, LoopStart)
    IN  [loop |-> loop,
         siblings |-> sibs,
         value |-> [url |-> url(self), shortlink |-> shortlink(self), number |-> number(self),
                    title |-> title(self), short_title |-> short_title(self),
                    distro |-> self.distro, source_package |-> src(self),
                    source_package_name |-> self.source_package_name, series |-> self.series,
                    importance |-> importance(self), status |-> status(self),
                    assignee |-> assignee(self),
                    sibling_task_status |-> loop.items]]

\* One round of get_releases' loop: the colour put around the character
\* (<<>> for none), and the unapproved check if the round ran it.
get_releases_mark(self, lp, lp_task) ==
    IF Contains(NOWORK_BUG_STATUSES, lp_task.status)
    THEN [class |-> COLOR_GREEN, check |-> NotRun]
    ELSE LET check == _is_in_unapproved(self, lp)
         IN  IF check.raised # "none" THEN [class |-> <<>>, check |-> check]
             ELSE IF check.ret = "True" THEN [class |-> COLOR_CYAN, check |-> check]
             ELSE IF Contains(OPEN_BUG_STATUSES, lp_task.status) THEN [class |-> COLOR_YELLOW, check |-> check]
             ELSE [class |-> <<>>, check |-> check]

RECURSIVE get_releases_loop(_, _, _, _, _)
\* acc.items is release_info.
get_releases_loop(self, lp, sibs, i, acc) ==
    IF i > Len(sibs) THEN acc
    ELSE LET series == sibs[i].series
             release_char == IF series[1] = "-" THEN <<"D">> ELSE <<Upper(series[1])>>
             round == get_releases_mark(self, lp, self.obj.bug.bug_tasks[sibs[i].lp_task])
             ran == round.check # NotRun
             acc1 == [acc EXCEPT !.runs = IF ran THEN @ + 1 ELSE @,
                                 !.last = IF ran THEN round.check ELSE @]
         IN  IF round.check.raised # "none"
             THEN [acc1 EXCEPT !.raised = round.check.raised]
             ELSE get_releases_loop(self, lp, sibs, i + 1,
                      [acc1 EXCEPT !.items = @ \o (IF round.class = <<>> THEN release_char
                                                   ELSE mark(release_char, round.class))])

get_releases(self, lp, length) ==
    LET sibs == _sibling_tasks(self)
        loop == get_releases_loop(self, lp, sibs, 1, LoopStart)
        release_info == loop.items
        printable == SelectSeq(release_info, IsCapital)
        p_len == Len(printable)
        p_need == length - p_len
    IN  [loop |-> loop,
         siblings |-> sibs,
         value |-> IF p_need > 0 THEN release_info \o Spaces(p_need) ELSE release_info]

(***************************************************************************)
(* Rendering.  AGE and OLD are set by the caller at startup; a date is its *)
(* day, month and year.                                                    *)
(***************************************************************************)
H_Bug == <<"B", "u", "g">>
H_Flags == <<"F", "l", "a", "g", "s">>
H_Release == <<"R", "e", "l", "e", "a", "s", "e">>
H_Status == <<"S", "t", "a", "t", "u", "s">>
H_Package == <<"P", "a", "c", "k", "a", "g", "e">>
H_LastUpd == <<"L", "a", "s", "t", " ", "U", "p", "d">>
H_Prio == <<"P", "r", "i", "o">>
H_Assignee == <<"A", "s", "s", "i", "g", "n", "e", "e">>
H_Title == <<"T", "i", "t", "l", "e">>
S_verification_needed == <<"v", "e", "r", "i", "f", "i", "c", "a", "t", "i", "o", "n", "-", "n", "e", "e", "d", "e", "d", "-">>
S_verification_done == <<"v", "e", "r", "i", "f", "i", "c", "a", "t", "i", "o", "n", "-", "d", "o", "n", "e", "-">>
Bar == <<" ", "|">>
BarSpace == <<" ", "|", " ">>

AGE == [d |-> 1, m |-> 10, y |-> 2026]
OLD == [d |-> 1, m |-> 1, y |-> 2026]

DateBefore(a, b) ==
    \/ a.y < b.y
    \/ a.y = b.y /\ a.m < b.m
    \/ a.y = b.y /\ a.m = b.m /\ a.d < b.d

Digits == <<"0", "1", "2", "3", "4", "5", "6", "7", "8", "9">>
TwoDigits(n) == <<Digits[((n \div 10) % 10) + 1], Digits[(n % 10) + 1]>>
\* date.strftime('%d.%m.%y')
strftime(date) == TwoDigits(date.d) \o <<".">> \o TwoDigits(date.m) \o <<".">> \o TwoDigits(date.y)

\* pattern in tag
IsIn(pattern, tag) ==
    \E i \in 0..(Len(tag) - Len(pattern)) : SubSeq(tag, i + 1, i + Len(pattern)) = pattern

_is_updated(self) == DateBefore(AGE, date_last_updated(self))
_is_old(self) == DateBefore(date_last_updated(self), OLD)
_is_verification_needed(self) ==
    \E i \in 1..Len(tags(self)) : IsIn(S_verification_needed, tags(self)[i])
_is_verification_done(self) ==
    \E i \in 1..Len(tags(self)) : IsIn(S_verification_done, tags(self)[i])

get_flags(self, newbug) ==
    LET verification_needed == mark(<<"v">>, COLOR_CYAN)
        verification_done == mark(<<"V">>, COLOR_GREEN)
    IN  (IF self.subscribed = PyTrue THEN <<"*">> ELSE <<" ">>)
        \o (IF self.last_activity_ours = PyTrue THEN <<"+">> ELSE <<" ">>)
        \o (IF _is_updated(self) THEN <<"U">> ELSE IF _is_old(self) THEN <<"O">> ELSE <<" ">>)
        \o (IF newbug THEN <<"N">> ELSE <<" ">>)
        \o (IF _is_verification_needed(self) THEN verification_needed ELSE <<" ">>)
        \o (IF _is_verification_done(self) THEN verification_done ELSE <<" ">>)

get_header(extended) ==
    PadRight(H_Bug, 12) \o BarSpace \o PadRight(H_Flags, 6) \o BarSpace
    \o PadRight(H_Release, 7) \o BarSpace \o PadRight(H_Status, 13) \o BarSpace
    \o PadRight(H_Package, 19) \o Bar
    \o (IF extended
        THEN <<" ">> \o PadRight(H_LastUpd, 8) \o BarSpace \o PadRight(H_Prio, 10) \o BarSpace
             \o PadRight(H_Assignee, 13) \o Bar
        ELSE <<>>)
    \o <<" ">> \o PadRight(H_Title, 60) \o Bar

\* compose_pretty: the exception get_releases raised, or "none" and the line.
compose_pretty(self, lp, shortlinks, extended, newbug) ==
    LET bug_url == IF shortlinks
                   THEN PadRight(shortlink(self), BUG_NUMBER_LENGTH + Len(SHORTLINK_ROOT))
                   ELSE PadRight(url(self), BUG_NUMBER_LENGTH + Len(LONG_URL_ROOT))
        releases == get_releases(self, lp, 7)
    IN  [raised |-> releases.loop.raised,
         value |->
            PadRight(bug_url, 12) \o BarSpace \o PadLeft(get_flags(self, newbug), 6) \o BarSpace
            \o PadRight(releases.value, 7) \o BarSpace \o PadRight(status(self), 13) \o BarSpace
            \o PadRight(truncate_string(src(self), 19), 19) \o Bar
            \o (IF extended
                THEN <<" ">> \o PadLeft(strftime(date_last_updated(self)), 8) \o BarSpace
                     \o PadRight(importance(self), 10) \o BarSpace
                     \o PadRight(IF assignee(self) = <<>> THEN <<>>
                                 ELSE truncate_string(assignee(self), 12), 13) \o Bar
                ELSE <<>>)
            \o <<" ">> \o PadLeft(truncate_string(short_title(self), 60), 60) \o Bar]

(***************************************************************************)
(* State.                                                                  *)
(***************************************************************************)
VARIABLES
    task,            \* the Task under test (self)
    LP,              \* Task.LP: the remote session, with the unapproved queues
    to_dict_cache,   \* lru_cache of to_dict for this Task: <<>> or <<value>>
    siblings,        \* _sibling_tasks as last computed
    release_info,    \* the string last returned by get_releases
    length,          \* the length argument of the last get_releases / truncate_string
    unapproved,      \* outcome of the last run of _is_in_unapproved
    runs,            \* runs of _is_in_unapproved made by to_dict and get_releases
    raised,          \* the exception that ended the last operation, or "none"
    text,            \* truncate_string: its argument
    truncated,       \* truncate_string: its result
    cache,           \* the lru_cache of each memoized member: the Tasks it holds, oldest first
    computed,        \* how often each member's body has run for each Task
    member,          \* the member the caller is reading of every Task in turn
    cursor,          \* the Task the caller reads next, 0 between two passes
    passes,          \* the passes the caller has started
    args,            \* compose_pretty: its arguments
    pretty,          \* compose_pretty: its result
    header           \* get_header: its result

vars == <<task, LP, to_dict_cache, siblings, release_info, length, unapproved, runs,
          raised, text, truncated, cache, computed, member, cursor, passes,
          args, pretty, header>>

task_vars == <<task, LP, to_dict_cache, siblings, release_info, unapproved, runs, raised>>
truncate_vars == <<text, truncated>>
memo_vars == <<cache, computed, member, cursor, passes>>
pretty_vars == <<args, pretty, header>>


(***************************************************************************)
(* Bounds of the explored inputs.                                          *)
(***************************************************************************)
MaxTasks == 2
MaxUploads == 2
MaxRuns == 2
MaxLen == 3

ChangesUrl == <<"u", "r", "l">>
BugNumber == <<"1">>
OtherBugNumber == <<"2">>

\* The targets of the tasks of one bug: no two tasks of a bug share a target.
Targets ==
    {PackageTarget(S_ubuntu, None, S_pkga), PackageTarget(S_ubuntu, S_jammy, S_pkga),
     PackageTarget(S_ubuntu, S_jammy, S_pkgb), PackageTarget(S_debian, None, S_pkga),
     ProjectTarget(S_cloudinit)}
Statuses == {S_FixReleased, S_New, S_Incomplete}
\* The code reads the status of an Ubuntu task only.
TaskChoices ==
    {c \in [target : Targets, status : Statuses] : c.target.distro # S_ubuntu => c.status = S_New}

\* The task lists of a bug, each task as its target and its status.
BugTaskLists ==
    UNION {{l \in [1..n -> TaskChoices] :
              \A i, j \in 1..n : i # j => l[i].target # l[j].target} : n \in 1..MaxTasks}

\* The remote task at place i of the bug whose tasks are l.
RemoteTaskOf(l, i) ==
    RemoteTask(l[i].target, BugNumber, l[i].status, None, <<>>, [d |-> 3, m |-> 11, y |-> 2026],
               [j \in 1..Len(l) |-> BugTask(l[j].target, BugNumber, l[j].status)])

SourceFix == Upload(S_pkga, TRUE, FALSE, TRUE, 0, ChangesUrl, BugNumber)
SourceOther == Upload(S_pkga, TRUE, FALSE, TRUE, 0, ChangesUrl, OtherBugNumber)
SourceNoField == Upload(S_pkga, TRUE, FALSE, TRUE, 0, ChangesUrl, None)
SourceNoChanges == Upload(S_pkga, TRUE, FALSE, TRUE, 0, None, BugNumber)
CopyFix == Upload(S_pkga, FALSE, TRUE, TRUE, 1, ChangesUrl, OtherBugNumber \o <<" ">> \o BugNumber)
CopyEperm == Upload(S_pkga, FALSE, TRUE, FALSE, 1, ChangesUrl, BugNumber)
CopyUnpublished == Upload(S_pkga, FALSE, TRUE, TRUE, 0, ChangesUrl, BugNumber)
NoSource == Upload(S_pkga, FALSE, FALSE, TRUE, 0, ChangesUrl, BugNumber)
OtherPackage == Upload(S_pkgb, TRUE, FALSE, TRUE, 0, ChangesUrl, BugNumber)

UploadKinds == {SourceFix, SourceOther, SourceNoField, SourceNoChanges, CopyFix, CopyEperm,
                CopyUnpublished, NoSource, OtherPackage}
UploadLists == UNION {[1..n -> UploadKinds] : n \in 0..MaxUploads}

Session(uploads) == [queue |-> [series \in {S_jammy} |-> uploads]]

\* The lengths get_releases is called with: compose_pretty's 7, and 1.
ReleaseLengths == {1, 7}

(***************************************************************************)
(* Spec: one Task, built over one of the tasks of a bug, and the calls of  *)
(* to_dict and get_releases on it.  The remote data does not change.       *)
(***************************************************************************)
NoTruncate == text = <<>> /\ truncated = <<>>
NoPretty == args = None /\ pretty = None /\ header = None
NoMemo == cache = <<>> /\ computed = <<>> /\ member = "" /\ cursor = 0 /\ passes = 0

\* A Task over any package task of any bug, the queue empty or holding the fix.
InitSiblings ==
    \E l \in BugTaskLists, q \in {<<>>, <<SourceFix>>} :
        \E i \in 1..Len(l) :
            /\ l[i].target.kind = "package"
            /\ task = TaskInit(RemoteTaskOf(l, i))
            /\ LP = Session(q)

\* A Task over the only task of a bug (built from the reference, or by the
\* factory from the object alone), and any unapproved queue.
InitScan ==
    \E build \in {<<None, FALSE>>, <<S_jammy, FALSE>>, <<S_jammy, TRUE>>}, q \in UploadLists :
        LET l == <<[target |-> PackageTarget(S_ubuntu, build[1], S_pkga), status |-> S_New]>>
        IN  /\ task = IF build[2] THEN create_from_launchpadlib_object(RemoteTaskOf(l, 1))
                      ELSE TaskInit(RemoteTaskOf(l, 1))
            /\ LP = Session(q)

Init ==
    /\ InitSiblings \/ InitScan
    /\ to_dict_cache = <<>>
    /\ siblings = <<>>
    /\ release_info = <<>>
    /\ length = 0
    /\ unapproved = NotRun
    /\ runs = 0
    /\ raised = "none"
    /\ NoTruncate
    /\ NoMemo
    /\ NoPretty

\* task.to_dict(): a hit of its cache changes nothing; a call that raises
\* caches nothing.
ToDict ==
    /\ raised = "none"
    /\ runs < MaxRuns
    /\ IF to_dict_cache # <<>>
       THEN UNCHANGED <<to_dict_cache, siblings, unapproved, runs, raised>>
       ELSE \E r \in {to_dict(task, LP)} :
                /\ to_dict_cache' = IF r.loop.raised = "none" THEN <<r.value>> ELSE <<>>
                /\ siblings' = r.siblings
                /\ unapproved' = IF r.loop.runs > 0 THEN r.loop.last ELSE unapproved
                /\ runs' = runs + r.loop.runs
                /\ raised' = r.loop.raised
    /\ UNCHANGED <<task, LP, release_info, length, truncate_vars, memo_vars, pretty_vars>>

\* task.get_releases(len)
GetReleases(len) ==
    /\ raised = "none"
    /\ runs < MaxRuns
    /\ length' = len
    /\ \E r \in {get_releases(task, LP, len)} :
           /\ release_info' = IF r.loop.raised = "none" THEN r.value ELSE release_info
           /\ siblings' = r.siblings
           /\ unapproved' = IF r.loop.runs > 0 THEN r.loop.last ELSE unapproved
           /\ runs' = runs + r.loop.runs
           /\ raised' = r.loop.raised
    /\ UNCHANGED <<task, LP, to_dict_cache, truncate_vars, memo_vars, pretty_vars>>

Next ==
    \/ ToDict
    \/ \E len \in ReleaseLengths : GetReleases(len)

Spec == Init /\ [][Next]_vars

(***************************************************************************)
(* Reading a get_releases string back: its cells (one character each, with *)
(* the colour around it, <<>> for none) and the spaces that follow them.   *)
(***************************************************************************)
RECURSIVE ParseReleases(_, _, _)
ParseReleases(s, i, cells) ==
    IF i > Len(s) THEN [cells |-> cells, pad |-> 0, rest |-> <<>>]
    ELSE IF s[i] = "ESC"
    THEN ParseReleases(s, i + 12, Append(cells, [char |-> s[i + 7], color |-> SubSeq(s, i, i + 6)]))
    ELSE IF s[i] = " "
    THEN [cells |-> cells, pad |-> Len(SelectSeq(SubSeq(s, i, Len(s)), LAMBDA c : c = " ")),
          rest |-> SelectSeq(SubSeq(s, i, Len(s)), LAMBDA c : c # " ")]
    ELSE ParseReleases(s, i + 1, Append(cells, [char |-> s[i], color |-> <<>>]))

Releases == ParseReleases(release_info, 1, <<>>)

\* The number of printable columns of the last get_releases string.
PrintableColumns == Len(Releases.cells) + Releases.pad + Len(Releases.rest)

ToDictDone == to_dict_cache # <<>>
GetReleasesDone == length > 0 /\ raised = "none"
SiblingStatus(i) == task.obj.bug.bug_tasks[siblings[i].lp_task].status
NoWork(st) == Contains(NOWORK_BUG_STATUSES, st)
SeriesIsDevelOrEmpty == task.series = None \/ task.series = <<>> \/ task.series = S_devel

\* C2: over any calls of to_dict and get_releases on one Task, the
\* unapproved-queue check runs at most once.
C2_UnapprovedCheckRunsOnce == runs <= 1

\* C3: with the series empty or "-devel", _is_in_unapproved returns None and
\* has made no access to the remote session.
C3_DevelMakesNoRemoteAccess ==
    (unapproved # NotRun /\ SeriesIsDevelOrEmpty)
        => (unapproved.ret = "None" /\ unapproved.log = <<>>)

\* The class the precedence of C4 gives a sibling of status st when the
\* unapproved check answers u.
PrecedenceClass(st, u) ==
    IF NoWork(st) THEN "closed"
    ELSE IF u THEN "unapproved"
    ELSE IF Contains(OPEN_BUG_STATUSES, st) THEN "open"
    ELSE "pending"

ClassColor(class) ==
    CASE class = "closed" -> COLOR_GREEN
      [] class = "unapproved" -> COLOR_CYAN
      [] class = "open" -> COLOR_YELLOW
      [] class = "pending" -> <<>>

\* C4: the class to_dict gives every sibling, and the marker get_releases
\* gives it, follow the precedence closed, unapproved, open, pending; and
\* when every sibling is closed the unapproved check has not run at all.
C4_ClassFollowsPrecedence ==
    LET u == _is_in_unapproved(task, LP).ret = "True"
    IN  /\ ToDictDone =>
              LET items == to_dict_cache[1].sibling_task_status
              IN  /\ Len(items) = Len(siblings)
                  /\ \A i \in 1..Len(items) :
                        /\ items[i].series = siblings[i].series
                        /\ items[i].class = PrecedenceClass(SiblingStatus(i), u)
        /\ GetReleasesDone =>
              /\ Len(Releases.cells) = Len(siblings)
              /\ \A i \in 1..Len(siblings) :
                    Releases.cells[i].color = ClassColor(PrecedenceClass(SiblingStatus(i), u))
        /\ (\A i \in 1..Len(siblings) : NoWork(SiblingStatus(i))) => runs = 0

\* A closed sibling of a Task whose unapproved check would answer true, after
\* to_dict and get_releases.
C4_Witness ==
    /\ ToDictDone
    /\ GetReleasesDone
    /\ _is_in_unapproved(task, LP).ret = "True"
    /\ \E i \in 1..Len(siblings) :
          NoWork(SiblingStatus(i)) /\ to_dict_cache[1].sibling_task_status[i].class = "closed"

\* C5: the string of get_releases(length) has exactly length printable columns.
C5_ReleasesHaveLengthColumns == GetReleasesDone => PrintableColumns = length

\* An upload C6 counts as skipped: its source URLs cannot be resolved, or it
\* has no changes-file URL.
Skipped(upload) ==
    \/ ~upload.contains_source /\ upload.contains_copy /\ ~upload.archive_readable
    \/ ~upload.contains_source /\ ~upload.contains_copy
    \/ ~upload.contains_source /\ upload.contains_copy /\ upload.published = 0
    \/ upload.changes_file_url = None

\* C6: the scan skips every such upload and goes on: it ends with True iff
\* an upload that is not skipped lists the bug number, with False otherwise.
C6_ScanSkipsAndGoesOn ==
    (unapproved # NotRun /\ ~SeriesIsDevelOrEmpty) =>
        LET uploads == getPackageUploads(LP, task.series, task.obj.target.pkg)
            listed == \E i \in 1..Len(uploads) :
                         /\ ~Skipped(uploads[i])
                         /\ uploads[i].bugs_fixed # None
                         /\ Contains(SplitWhitespace(uploads[i].bugs_fixed), BugNumber)
        IN  /\ unapproved.raised = "none"
            /\ unapproved.ret = IF listed THEN "True" ELSE "False"

\* C7: every sibling targets the distribution and the source package of the
\* Task's own task, and no later task of the list has its series.
C7_SiblingsShareDistroAndPackage ==
    \A i \in 1..Len(siblings) :
        LET bug_tasks == task.obj.bug.bug_tasks
            own == task.obj.target
            t == bug_tasks[siblings[i].lp_task].target
        IN  /\ t.kind = "package"
            /\ t.distro = own.distro
            /\ t.pkg = own.pkg
            /\ \A j \in 1..Len(bug_tasks) :
                  (j > siblings[i].lp_task /\ bug_tasks[j].target.kind = "package"
                   /\ bug_tasks[j].target.distro = own.distro /\ bug_tasks[j].target.pkg = own.pkg)
                      => bug_tasks[j].target.series # t.series

\* C10: two siblings of one Task that are not closed are both unapproved or
\* neither is, in to_dict and in get_releases; and no sibling of a Task
\* whose own series is empty or "-devel" is unapproved.
C10_UnapprovedIsOfTheRecord ==
    /\ ToDictDone =>
          LET items == to_dict_cache[1].sibling_task_status
          IN  /\ \A i, j \in 1..Len(items) :
                    (~NoWork(SiblingStatus(i)) /\ ~NoWork(SiblingStatus(j)))
                        => (items[i].class = "unapproved" <=> items[j].class = "unapproved")
              /\ SeriesIsDevelOrEmpty => \A i \in 1..Len(items) : items[i].class # "unapproved"
    /\ GetReleasesDone =>
          LET cells == Releases.cells
          IN  /\ \A i, j \in 1..Len(cells) :
                    (~NoWork(SiblingStatus(i)) /\ ~NoWork(SiblingStatus(j)))
                        => (cells[i].color = COLOR_CYAN <=> cells[j].color = COLOR_CYAN)
              /\ SeriesIsDevelOrEmpty => \A i \in 1..Len(cells) : cells[i].color # COLOR_CYAN

\* Two siblings of different series, neither closed, both unapproved after
\* to_dict.
C10_Witness ==
    /\ ToDictDone
    /\ \E i, j \in 1..Len(siblings) :
          /\ siblings[i].series # siblings[j].series
          /\ to_dict_cache[1].sibling_task_status[i].class = "unapproved"
          /\ to_dict_cache[1].sibling_task_status[j].class = "unapproved"

(***************************************************************************)
(* SpecTruncate: truncate_string on every text over two characters of at   *)
(* most MaxLen characters, and every length up to MaxLen + 1.              *)
(***************************************************************************)
Texts == UNION {[1..n -> {"a", "b"}] : n \in 0..MaxLen}

NoTask ==
    /\ task = None
    /\ LP = None
    /\ to_dict_cache = <<>>
    /\ siblings = <<>>
    /\ release_info = <<>>
    /\ unapproved = NotRun
    /\ runs = 0
    /\ raised = "none"

InitTruncate ==
    /\ NoTask
    /\ NoMemo
    /\ NoPretty
    /\ text \in Texts
    /\ length \in 0..(MaxLen + 1)
    /\ truncated = None

Truncate ==
    /\ truncated = None
    /\ truncated' = truncate_string(text, length)
    /\ UNCHANGED <<task_vars, memo_vars, pretty_vars, length, text>>

NextTruncate == Truncate

SpecTruncate == InitTruncate /\ [][NextTruncate]_vars

\* C8 as stated, for every length >= 0: the text unchanged if it fits,
\* otherwise length characters, the first length - 1 of the text and then
\* one ellipsis.
C8_TruncateAnyLength ==
    truncated # None =>
        IF Len(text) <= length THEN truncated = text
        ELSE /\ Len(truncated) = length
             /\ SubSeq(truncated, 1, length - 1) = SubSeq(text, 1, length - 1)
             /\ truncated[length] = "ELLIPSIS"

\* C8 for every length >= 1; for length 0 a text that does not fit gives the
\* ellipsis alone, one character.
C8_TruncateFromOne ==
    truncated # None =>
        IF Len(text) <= length THEN truncated = text
        ELSE IF length >= 1
        THEN /\ Len(truncated) = length
             /\ SubSeq(truncated, 1, length - 1) = SubSeq(text, 1, length - 1)
             /\ truncated[length] = "ELLIPSIS"
        ELSE truncated = <<"ELLIPSIS">>

\* A text cut to a length of at least 2: part of it is kept, the rest lost.
C8_Witness == truncated # None /\ Len(text) > length /\ length >= 2

(***************************************************************************)
(* SpecMemo: the memoized members over many Tasks.  Every member is        *)
(* wrapped in functools.lru_cache with its default maxsize, keyed by the   *)
(* Task.  The caller passes over its list of Tasks, reading one member of  *)
(* each (as sorting the list by a key, or printing it, does).              *)
(***************************************************************************)
LruMaxSize == 128
NumTasks == 129
MaxPasses == 2

Members == {"number", "tags", "date_last_updated", "importance", "src", "title", "assignee",
            "status", "short_title", "to_dict"}

\* The memoized members the body of a member reads.
Reads(m) ==
    CASE m = "number" -> <<"title">>
      [] m = "src" -> <<"title">>
      [] m = "short_title" -> <<"title">>
      [] m = "to_dict" -> <<"src", "number", "title", "short_title", "importance", "status",
                            "tags", "assignee", "date_last_updated">>
      [] OTHER -> <<>>

RECURSIVE lru_cache_call(_, _, _)
RECURSIVE lru_cache_calls(_, _, _, _)
\* One read of member m of Task r: a hit makes the entry the newest; a miss
\* runs the body, then stores the entry and drops the oldest one if the
\* cache is over its size.  st is [cache, computed].
lru_cache_call(st, m, r) ==
    IF Contains(st.cache[m], r)
    THEN [st EXCEPT !.cache[m] = Append(SelectSeq(@, LAMBDA x : x # r), r)]
    ELSE LET ran == lru_cache_calls(st, Reads(m), 1, r)
             stored == Append(ran.cache[m], r)
         IN  [cache |-> [ran.cache EXCEPT ![m] = IF Len(stored) > LruMaxSize THEN Tail(stored) ELSE stored],
              computed |-> [ran.computed EXCEPT ![m][r] = @ + 1]]

lru_cache_calls(st, ms, i, r) ==
    IF i > Len(ms) THEN st
    ELSE lru_cache_calls(lru_cache_call(st, ms[i], r), ms, i + 1, r)

InitMemo ==
    /\ NoTask
    /\ NoPretty
    /\ length = 0
    /\ NoTruncate
    /\ cache = [m \in Members |-> <<>>]
    /\ computed = [m \in Members |-> [r \in 1..NumTasks |-> 0]]
    /\ member = ""
    /\ cursor = 0
    /\ passes = 0

\* The caller starts a pass over its Tasks, reading member m of each.
StartPass(m) ==
    /\ cursor = 0
    /\ passes < MaxPasses
    /\ passes' = passes + 1
    /\ member' = m
    /\ cursor' = 1
    /\ UNCHANGED <<task_vars, truncate_vars, pretty_vars, length, cache, computed>>

\* The pass reads the member of the next Task.
ReadMember ==
    /\ cursor > 0
    /\ \E st \in {lru_cache_call([cache |-> cache, computed |-> computed], member, cursor)} :
          /\ cache' = st.cache
          /\ computed' = st.computed
    /\ cursor' = IF cursor = NumTasks THEN 0 ELSE cursor + 1
    /\ UNCHANGED <<task_vars, truncate_vars, pretty_vars, length, member, passes>>

NextMemo ==
    \/ \E m \in Members : StartPass(m)
    \/ ReadMember

SpecMemo == InitMemo /\ [][NextMemo]_vars

\* C1: the body of a memoized member runs at most once for each Task.
C1_ComputedAtMostOnce ==
    \A m \in DOMAIN computed : \A r \in DOMAIN computed[m] : computed[m][r] <= 1

(***************************************************************************)
(* SpecPretty: compose_pretty and get_header on a Task of an Ubuntu        *)
(* package, in every display mode.                                         *)
(***************************************************************************)
T_needed_jammy == <<"v", "e", "r", "i", "f", "i", "c", "a", "t", "i", "o", "n", "-", "n", "e", "e", "d", "e", "d", "-", "j", "a", "m", "m", "y">>
T_done_jammy == <<"v", "e", "r", "i", "f", "i", "c", "a", "t", "i", "o", "n", "-", "d", "o", "n", "e", "-", "j", "a", "m", "m", "y">>
SevenDigits == <<"1", "2", "3", "4", "5", "6", "7">>
EightDigits == <<"1", "2", "3", "4", "5", "6", "7", "8">>

InitPretty ==
    /\ \E series \in {None, S_jammy}, bugno \in {BugNumber, SevenDigits, EightDigits},
          tag \in {<<>>, <<T_needed_jammy>>, <<T_needed_jammy, T_done_jammy>>},
          assignee_link \in {None, S_assignee_link},
          date \in {[d |-> 3, m |-> 11, y |-> 2026], [d |-> 24, m |-> 12, y |-> 2025]},
          ours \in {PyTrue, PyFalse} :
          LET target == PackageTarget(S_ubuntu, series, S_pkga)
              lp_task == RemoteTask(target, bugno, S_New, assignee_link, tag, date,
                                    <<BugTask(target, bugno, S_New)>>)
          IN  task = [TaskInit(lp_task) EXCEPT !.subscribed = ours, !.last_activity_ours = ours]
    /\ LP = Session(<<>>)
    /\ to_dict_cache = <<>>
    /\ siblings = <<>>
    /\ release_info = <<>>
    /\ length = 0
    /\ unapproved = NotRun
    /\ runs = 0
    /\ raised = "none"
    /\ NoTruncate
    /\ NoMemo
    /\ NoPretty

\* task.compose_pretty(shortlinks, extended, newbug)
ComposePretty(shortlinks, extended, newbug) ==
    /\ pretty = None
    /\ raised = "none"
    /\ args' = [shortlinks |-> shortlinks, extended |-> extended, newbug |-> newbug]
    /\ \E r \in {compose_pretty(task, LP, shortlinks, extended, newbug)} :
          /\ raised' = r.raised
          /\ pretty' = IF r.raised = "none" THEN r.value ELSE pretty
    /\ UNCHANGED <<task, LP, to_dict_cache, siblings, release_info, length, unapproved, runs,
                   truncate_vars, memo_vars, header>>

\* Task.get_header(extended)
GetHeader(extended) ==
    /\ header = None
    /\ header' = get_header(extended)
    /\ UNCHANGED <<task_vars, length, truncate_vars, memo_vars, args, pretty>>

NextPretty ==
    \/ \E shortlinks, extended, newbug \in BOOLEAN : ComposePretty(shortlinks, extended, newbug)
    \/ \E extended \in BOOLEAN : GetHeader(extended)

SpecPretty == InitPretty /\ [][NextPretty]_vars

\* The places of a line outside its colour markers; a marker runs from ESC
\* to the next "m" and is at most 7 characters long.
PrintablePlaces(line) ==
    {i \in 1..Len(line) :
        ~\E j \in (IF i > 6 THEN i - 6 ELSE 1)..i :
            line[j] = "ESC" /\ \A k \in j..(i - 1) : line[k] # "m"}

\* The printable columns at which a line has a column separator.
SeparatorOffsets(line) ==
    LET places == PrintablePlaces(line)
    IN  {Cardinality({p \in places : p <= i}) : i \in {p \in places : line[p] = "|"}}

LongerPrefix ==
    IF Len(LONG_URL_ROOT) > Len(SHORTLINK_ROOT) THEN Len(LONG_URL_ROOT) ELSE Len(SHORTLINK_ROOT)

\* C9: for a bug number of at most BUG_NUMBER_LENGTH characters, the
\* reference column is as wide as the longer prefix plus BUG_NUMBER_LENGTH,
\* and the separators of the line are at the same columns with shortlinks
\* and without, and at the columns of the separators of get_header.
C9_ReferenceColumnHasOneWidth ==
    (pretty # None /\ Len(number(task)) <= BUG_NUMBER_LENGTH) =>
        LET here == SeparatorOffsets(pretty)
            other == SeparatorOffsets(
                         compose_pretty(task, LP, ~args.shortlinks, args.extended, args.newbug).value)
            first == CHOOSE i \in here : \A j \in here : i <= j
        IN  /\ first = LongerPrefix + BUG_NUMBER_LENGTH + 2
            /\ here = other
            /\ here = SeparatorOffsets(get_header(args.extended))

\* What holds of the code: with shortlinks the separators are at the columns
\* of get_header's; without, each is 10 columns further right.
C9_ShortFormMatchesHeader ==
    (pretty # None /\ Len(number(task)) <= BUG_NUMBER_LENGTH) =>
        LET here == SeparatorOffsets(pretty)
            head == SeparatorOffsets(get_header(args.extended))
        IN  IF args.shortlinks THEN here = head
            ELSE here = {i + (Len(LONG_URL_ROOT) - Len(SHORTLINK_ROOT)) : i \in head}

====
